---------------------------- MODULE Spec2Model ----------------------------
(***************************************************************************)
(* KumaFront: the listing view (HomePage.tsx) and the term submission form *)
(* (TermForm.tsx) as state machines.                                       *)
(*                                                                         *)
(* A JavaScript string is a sequence of one-character strings, so that     *)
(* toLowerCase, toUpperCase, charAt, slice and includes are computed       *)
(* character by character.  The empty string is << >>.                     *)
(***************************************************************************)
EXTENDS Integers, Sequences, FiniteSets, TLC

(***************************************************************************)
(* Strings                                                                 *)
(***************************************************************************)
UpperAlphabet ==
    << "A","B","C","D","E","F","G","H","I","J","K","L","M",
       "N","O","P","Q","R","S","T","U","V","W","X","Y","Z" >>

LowerAlphabet ==
    << "a","b","c","d","e","f","g","h","i","j","k","l","m",
       "n","o","p","q","r","s","t","u","v","w","x","y","z" >>

EmptyString == << >>

\* One character lower-cased: a capital letter maps to its small letter,
\* every other character is kept.
LowerChar(c) ==
    IF \E i \in 1..Len(UpperAlphabet) : UpperAlphabet[i] = c
    THEN LowerAlphabet[CHOOSE i \in 1..Len(UpperAlphabet) : UpperAlphabet[i] = c]
    ELSE c

\* One character upper-cased.
UpperChar(c) ==
    IF \E i \in 1..Len(LowerAlphabet) : LowerAlphabet[i] = c
    THEN UpperAlphabet[CHOOSE i \in 1..Len(LowerAlphabet) : LowerAlphabet[i] = c]
    ELSE c

\* String.prototype.toLowerCase
toLowerCase(s) == [i \in 1..Len(s) |-> LowerChar(s[i])]

\* String.prototype.toUpperCase
toUpperCase(s) == [i \in 1..Len(s) |-> UpperChar(s[i])]

\* String.prototype.includes: needle occurs in hay at some position.
includes(hay, needle) ==
    \E p \in 0..(Len(hay) - Len(needle)) :
        SubSeq(hay, p + 1, p + Len(needle)) = needle

\* String.prototype.charAt: the character at a 0-based index, or "".
charAt(s, i) == IF i + 1 <= Len(s) THEN << s[i + 1] >> ELSE EmptyString

\* String.prototype.slice(begin) for begin >= 0.
sliceFrom(s, begin) == SubSeq(s, (IF begin < Len(s) THEN begin ELSE Len(s)) + 1, Len(s))

\* Array.prototype.slice(begin, end) for 0 <= begin, 0 <= end: both indices
\* are clamped to the length, and an empty array results when begin >= end.
slice(arr, begin, end) ==
    LET b == IF begin < Len(arr) THEN begin ELSE Len(arr)
        e == IF end < Len(arr) THEN end ELSE Len(arr)
    IN  SubSeq(arr, b + 1, e)

\* Words used as data.
Other == << "O","t","h","e","r" >>
Noun == << "N","o","u","n" >>
Adjective == << "A","d","j","e","c","t","i","v","e" >>
Verb == << "V","e","r","b" >>
Nature == << "N","a","t","u","r","e" >>
Speed == << "S","p","e","e","d" >>
French == << "F","r","e","n","c","h" >>
English == << "E","n","g","l","i","s","h" >>
Chat == << "C","h","a","t" >>
Rapide == << "R","a","p","i","d","e" >>
AnimalDomestique ==
    << "A","n","i","m","a","l"," ","d","o","m","e","s","t","i","q","u","e" >>
Vite == << "V","i","t","e" >>

(***************************************************************************)
(* Bounds                                                                  *)
(***************************************************************************)
\* Length of the long term list a terms fetch may return (more than two pages).
BigListLen == 21

\* Longest term list, and longest search text, the filter is applied to on its
\* own (SpecFilter).
MaxFilterLen == 2
MaxSearchLen == 2

(***************************************************************************)
(* State                                                                   *)
(***************************************************************************)
VARIABLES
    \* HomePage.tsx
    terms, filteredTerms, categories, selectedCategory, themes, selectedTheme,
    languages, selectedLanguage, searchTerm, currentPage,
    \* the four mount-time requests: what each will answer, and whether it
    \* has settled
    listNet, listDone,
    \* number of calls of handleAuthError
    authErrorCalls,
    \* the filter effect's dependencies changed since it last ran
    filterEffectPending,
    \* history: the filter-button clicks made in a row on one option (at most
    \* the last two), each with the selection and the filtered list it found
    clickTrail,
    \* TermForm.tsx: props
    termId, initialData,
    \* TermForm.tsx: useState (rawValues is written and never read; it is
    \* left out)
    term, definition, translation, grammaticalCategory, theme, language,
    newCategory, newTheme, newLanguage, formCategories, themeOptions,
    languageOptions, loading, error, showModal, modalMessage,
    \* fetchData: where it stands, what its three requests will answer, and
    \* its locals categoriesData and themesData
    fetchDataPc, formNet, categoriesData, themesData,
    \* the default-selection effect's dependencies changed since it last ran
    defaultsEffectPending,
    \* the addTerm / updateTerm requests sent and not yet settled
    submitRequests,
    \* the router's current path
    location

listVars ==
    << terms, filteredTerms, categories, selectedCategory, themes, selectedTheme,
       languages, selectedLanguage, searchTerm, currentPage, listNet, listDone,
       authErrorCalls, filterEffectPending, clickTrail >>

formVars ==
    << termId, initialData, term, definition, translation, grammaticalCategory,
       theme, language, newCategory, newTheme, newLanguage, formCategories,
       themeOptions, languageOptions, loading, error, showModal, modalMessage,
       fetchDataPc, formNet, categoriesData, themesData, defaultsEffectPending,
       submitRequests, location >>

vars == << listVars, formVars >>

\* const termsPerPage: number = 10
termsPerPage == 10

(***************************************************************************)
(* Data the services may answer with                                       *)
(***************************************************************************)
\* interface Term (the fields the view reads)
MkTerm(id, t, d, c, th, l) ==
    [ _id |-> id, term |-> t, definition |-> d,
      grammaticalCategory |-> [name |-> c], theme |-> [name |-> th],
      language |-> [name |-> l] ]

\* interface Category / Theme / Language (the fields the view reads)
MkOption(n, approved) == [name |-> n, isApproved |-> approved]

SmallTerms ==
    << MkTerm(1, Chat, AnimalDomestique, Noun, Nature, French),
       MkTerm(2, Rapide, Vite, Adjective, Speed, French),
       MkTerm(3, Vite, Rapide, Adjective, Speed, English) >>

CategoryCycle == << Noun, Adjective, Verb >>
ThemeCycle == << Nature, Speed >>

BigTerms ==
    [ i \in 1..BigListLen |->
        MkTerm(i,
               IF i % 2 = 0 THEN Chat ELSE Rapide,
               IF i % 4 = 0 THEN Vite ELSE AnimalDomestique,
               CategoryCycle[(i % 3) + 1],
               ThemeCycle[(i % 2) + 1],
               IF i % 5 = 0 THEN English ELSE French) ]

\* A response: the promise rejects, resolves with undefined, or resolves
\* with an array.
Reject == [kind |-> "reject", data |-> << >>]
Undefined == [kind |-> "undefined", data |-> << >>]
Data(d) == [kind |-> "data", data |-> d]

TermResponses == { Reject, Undefined, Data(SmallTerms), Data(BigTerms) }

CategoryResponses ==
    { Reject, Undefined,
      Data(<< MkOption(Noun, TRUE), MkOption(Verb, FALSE), MkOption(Adjective, TRUE) >>) }

ThemeResponses ==
    { Reject, Data(<< MkOption(Nature, TRUE), MkOption(Speed, TRUE) >>) }

LanguageResponses ==
    { Reject, Data(<< MkOption(English, FALSE), MkOption(French, TRUE) >>) }

\* Texts the user may leave in the search box.
SearchInputs ==
    { EmptyString, << "c","H","a","T" >>, << "V","I","T","E" >>, << "z" >> }

(***************************************************************************)
(* HomePage: the filter effect                                             *)
(***************************************************************************)
\* Variant of termPasses: the search text is not lower-cased.
termPassesSearchAsTyped(t, selCategory, selTheme, selLanguage, search) ==
    /\ (IF selCategory # EmptyString THEN t.grammaticalCategory.name = selCategory ELSE TRUE)
    /\ (IF selTheme # EmptyString THEN t.theme.name = selTheme ELSE TRUE)
    /\ (IF selLanguage # EmptyString THEN t.language.name = selLanguage ELSE TRUE)
    /\ \/ includes(toLowerCase(t.term), search)
       \/ includes(toLowerCase(t.definition), search)

\* The predicate of terms.filter(...) in the filter effect.  A selection is
\* falsy exactly when it is the empty string.
termPasses(t, selCategory, selTheme, selLanguage, search) ==
    /\ (IF selCategory # EmptyString THEN t.grammaticalCategory.name = selCategory ELSE TRUE)
    /\ (IF selTheme # EmptyString THEN t.theme.name = selTheme ELSE TRUE)
    /\ (IF selLanguage # EmptyString THEN t.language.name = selLanguage ELSE TRUE)
    /\ \/ includes(toLowerCase(t.term), toLowerCase(search))
       \/ includes(toLowerCase(t.definition), toLowerCase(search))

\* const filtered = terms.filter(...)
filterTerms(ts, selCategory, selTheme, selLanguage, search) ==
    SelectSeq(ts, LAMBDA t : termPasses(t, selCategory, selTheme, selLanguage, search))

\* Identity of the array held in terms: the initial [] or the fetched array
\* (a dependency array compares arrays by reference).
termsIdentity ==
    IF listDone.terms /\ listNet.terms.kind = "data" THEN 1 ELSE 0

\* Variant of filterEffectDeps: terms is missing from the dependency array.
filterEffectDepsWithoutTerms ==
    << selectedCategory, selectedTheme, selectedLanguage, searchTerm >>

\* The dependency array of the filter effect.
filterEffectDeps ==
    << selectedCategory, selectedTheme, selectedLanguage, searchTerm, termsIdentity >>

\* The filter effect body: recompute and store the filtered list.  React runs
\* it after a commit in which a dependency changed, and before it handles the
\* next event or renders the next update: the other actions of the view wait
\* for a pending effect.
RunFilterEffect ==
    /\ UNCHANGED formVars
    /\ filterEffectPending
    /\ filteredTerms' =
          filterTerms(terms, selectedCategory, selectedTheme, selectedLanguage, searchTerm)
    /\ filterEffectPending' = FALSE
    /\ UNCHANGED << terms, categories, selectedCategory, themes, selectedTheme,
                    languages, selectedLanguage, searchTerm, currentPage, listNet,
                    listDone, authErrorCalls, clickTrail >>

(***************************************************************************)
(* HomePage: the mount-time fetches                                        *)
(***************************************************************************)
\* x.filter(o => o.isApproved)
approvedOnly(options) == SelectSeq(options, LAMBDA o : o.isApproved)

\* fetchApprovedTerms, from the point where getApprovedTerms settles.
fetchApprovedTerms ==
    /\ UNCHANGED formVars
    /\ clickTrail' = << >>
    /\ ~listDone.terms
    /\ ~filterEffectPending
    /\ listDone' = [listDone EXCEPT !.terms = TRUE]
    /\ IF listNet.terms.kind = "data"
       THEN /\ terms' = listNet.terms.data
            /\ filteredTerms' = listNet.terms.data
            /\ UNCHANGED authErrorCalls
       ELSE IF listNet.terms.kind = "reject"
       THEN /\ authErrorCalls' = authErrorCalls + 1
            /\ UNCHANGED << terms, filteredTerms >>
       ELSE UNCHANGED << terms, filteredTerms, authErrorCalls >>
    /\ UNCHANGED << categories, selectedCategory, themes, selectedTheme, languages,
                    selectedLanguage, searchTerm, currentPage, listNet >>
    /\ filterEffectPending' = (filterEffectDeps' # filterEffectDeps)

\* Variant of fetchCategories: the catch block calls handleAuthError too.
fetchCategoriesAuthHandled ==
    /\ UNCHANGED formVars
    /\ clickTrail' = << >>
    /\ ~listDone.categories
    /\ ~filterEffectPending
    /\ listDone' = [listDone EXCEPT !.categories = TRUE]
    /\ IF listNet.categories.kind = "data"
       THEN categories' = approvedOnly(listNet.categories.data) /\ UNCHANGED authErrorCalls
       ELSE UNCHANGED categories /\ authErrorCalls' = authErrorCalls + 1
    /\ UNCHANGED << terms, filteredTerms, selectedCategory, themes, selectedTheme,
                    languages, selectedLanguage, searchTerm, currentPage, listNet,
                    filterEffectPending >>

\* fetchCategories, from the point where getCategories settles.  A rejection,
\* and the TypeError of undefined.filter, both end in the catch block.
fetchCategories ==
    /\ UNCHANGED formVars
    /\ clickTrail' = << >>
    /\ ~listDone.categories
    /\ ~filterEffectPending
    /\ listDone' = [listDone EXCEPT !.categories = TRUE]
    /\ IF listNet.categories.kind = "data"
       THEN categories' = approvedOnly(listNet.categories.data)
       ELSE UNCHANGED categories
    /\ UNCHANGED << terms, filteredTerms, selectedCategory, themes, selectedTheme,
                    languages, selectedLanguage, searchTerm, currentPage, listNet,
                    authErrorCalls, filterEffectPending >>

\* fetchThemes, from the point where getThemes settles.
fetchThemes ==
    /\ UNCHANGED formVars
    /\ clickTrail' = << >>
    /\ ~listDone.themes
    /\ ~filterEffectPending
    /\ listDone' = [listDone EXCEPT !.themes = TRUE]
    /\ IF listNet.themes.kind = "data"
       THEN themes' = approvedOnly(listNet.themes.data)
       ELSE UNCHANGED themes
    /\ UNCHANGED << terms, filteredTerms, categories, selectedCategory, selectedTheme,
                    languages, selectedLanguage, searchTerm, currentPage, listNet,
                    authErrorCalls, filterEffectPending >>

\* fetchLanguages, from the point where getLanguages settles.
fetchLanguages ==
    /\ UNCHANGED formVars
    /\ clickTrail' = << >>
    /\ ~listDone.languages
    /\ ~filterEffectPending
    /\ listDone' = [listDone EXCEPT !.languages = TRUE]
    /\ IF listNet.languages.kind = "data"
       THEN languages' = approvedOnly(listNet.languages.data)
       ELSE UNCHANGED languages
    /\ UNCHANGED << terms, filteredTerms, categories, selectedCategory, themes,
                    selectedTheme, selectedLanguage, searchTerm, currentPage, listNet,
                    authErrorCalls, filterEffectPending >>

(***************************************************************************)
(* HomePage: user events                                                   *)
(***************************************************************************)
\* options={xs.map(x => x.name)}
optionNames(options) == { options[i].name : i \in 1..Len(options) }

\* Variant of toggleOption: a click on the selected option keeps it selected.
toggleOptionKeeps(option, selected) == option

\* The value an onSelectOption handler stores: option === selected ? '' : option
toggleOption(option, selected) == IF option = selected THEN EmptyString ELSE option

\* History only: the trail after a click on `option` of dimension `dim` that
\* found the selection `selected`.
trailAfter(dim, option, selected) ==
    LET click == [dim |-> dim, option |-> option, selBefore |-> selected,
                  filteredBefore |-> filteredTerms]
    IN  IF /\ Len(clickTrail) = 1
           /\ clickTrail[1].dim = dim
           /\ clickTrail[1].option = option
        THEN Append(clickTrail, click)
        ELSE << click >>

\* Variant of selectCategory: a click on a category button also goes back to
\* the first page.
selectCategoryResetsPage(option) ==
    /\ UNCHANGED formVars
    /\ clickTrail' = trailAfter("category", option, selectedCategory)
    /\ ~filterEffectPending
    /\ option \in optionNames(categories)
    /\ selectedCategory' = toggleOption(option, selectedCategory)
    /\ currentPage' = 1
    /\ UNCHANGED << terms, filteredTerms, categories, themes, selectedTheme, languages,
                    selectedLanguage, searchTerm, listNet, listDone,
                    authErrorCalls >>
    /\ filterEffectPending' = (filterEffectDeps' # filterEffectDeps)

\* onSelectOption of the "Catégories" buttons.
selectCategory(option) ==
    /\ UNCHANGED formVars
    /\ clickTrail' = trailAfter("category", option, selectedCategory)
    /\ ~filterEffectPending
    /\ option \in optionNames(categories)
    /\ selectedCategory' = toggleOption(option, selectedCategory)
    /\ UNCHANGED << terms, filteredTerms, categories, themes, selectedTheme, languages,
                    selectedLanguage, searchTerm, currentPage, listNet, listDone,
                    authErrorCalls >>
    /\ filterEffectPending' = (filterEffectDeps' # filterEffectDeps)

\* onSelectOption of the "Thèmes" buttons.
selectTheme(option) ==
    /\ UNCHANGED formVars
    /\ clickTrail' = trailAfter("theme", option, selectedTheme)
    /\ ~filterEffectPending
    /\ option \in optionNames(themes)
    /\ selectedTheme' = toggleOption(option, selectedTheme)
    /\ UNCHANGED << terms, filteredTerms, categories, selectedCategory, themes, languages,
                    selectedLanguage, searchTerm, currentPage, listNet, listDone,
                    authErrorCalls >>
    /\ filterEffectPending' = (filterEffectDeps' # filterEffectDeps)

\* onSelectOption of the "Langues" buttons.
selectLanguage(option) ==
    /\ UNCHANGED formVars
    /\ clickTrail' = trailAfter("language", option, selectedLanguage)
    /\ ~filterEffectPending
    /\ option \in optionNames(languages)
    /\ selectedLanguage' = toggleOption(option, selectedLanguage)
    /\ UNCHANGED << terms, filteredTerms, categories, selectedCategory, themes,
                    selectedTheme, languages, searchTerm, currentPage, listNet, listDone,
                    authErrorCalls >>
    /\ filterEffectPending' = (filterEffectDeps' # filterEffectDeps)

\* handleSearchChange: the change event carries the new content of the box.
handleSearchChange(value) ==
    /\ UNCHANGED formVars
    /\ clickTrail' = << >>
    /\ ~filterEffectPending
    /\ value # searchTerm
    /\ searchTerm' = value
    /\ UNCHANGED << terms, filteredTerms, categories, selectedCategory, themes,
                    selectedTheme, languages, selectedLanguage, currentPage, listNet,
                    listDone, authErrorCalls >>
    /\ filterEffectPending' = (filterEffectDeps' # filterEffectDeps)

\* Pagination: the page numbers 1..Math.ceil(totalTerms / termsPerPage).
pageNumbers(totalTerms) == 1..((totalTerms + termsPerPage - 1) \div termsPerPage)

\* paginate, called by a button of Pagination.
paginate(pageNumber) ==
    /\ UNCHANGED formVars
    /\ clickTrail' = << >>
    /\ ~filterEffectPending
    /\ pageNumber \in pageNumbers(Len(filteredTerms))
    /\ currentPage' = pageNumber
    /\ UNCHANGED << terms, filteredTerms, categories, selectedCategory, themes,
                    selectedTheme, languages, selectedLanguage, searchTerm, listNet,
                    listDone, authErrorCalls, filterEffectPending >>

\* The rendered slice of the filtered list.
indexOfLastTerm == currentPage * termsPerPage
\* Variant of indexOfFirstTerm: off by one.
indexOfFirstTermOffByOne == indexOfLastTerm - termsPerPage + 1
indexOfFirstTerm == indexOfLastTerm - termsPerPage
currentTerms == slice(filteredTerms, indexOfFirstTerm, indexOfLastTerm)

(***************************************************************************)
(* TermForm: data                                                          *)
(***************************************************************************)
\* Router paths: the form's route and the root listing path.
FormPath == "/new-term"
RootPath == "/"

\* The value null of the error state.
Null == "null"
LoadErrorMessage == "Error loading data"
SubmitErrorMessage == "An error occurred while submitting the term."
SuccessMessage ==
    "Your term has been submitted successfully. A moderator is going to review it soon."

\* A fetched taxonomy record, and the synthetic option the form appends.
MkItem(id, n) == [_id |-> id, name |-> n]
OtherItem == [_id |-> "other", name |-> Other]

\* A response that is neither an array nor undefined (an error object).
NonArray == [kind |-> "object", data |-> << >>]

Cat == << "C","a","t" >>
Animal == << "A","n","i","m","a","l" >>

\* The props.  A missing initialData and one whose fields are all '' read the
\* same everywhere in the component (initialData?.x || '', !initialData?.x).
NoInitialData ==
    [ term |-> EmptyString, translation |-> EmptyString, definition |-> EmptyString,
      grammaticalCategory |-> EmptyString, theme |-> EmptyString,
      language |-> EmptyString ]

FullInitialData ==
    [ term |-> Chat, translation |-> Cat, definition |-> Animal,
      grammaticalCategory |-> Verb, theme |-> Other, language |-> English ]

PartialInitialData ==
    [ term |-> Chat, translation |-> Cat, definition |-> Animal,
      grammaticalCategory |-> EmptyString, theme |-> EmptyString,
      language |-> English ]

FormProps ==
    { [termId |-> EmptyString, initialData |-> NoInitialData],
      [termId |-> << "t","1" >>, initialData |-> FullInitialData],
      [termId |-> << "t","1" >>, initialData |-> PartialInitialData] }

FormCategoryResponses ==
    { Reject, Data(<< >>), Data(<< MkItem("c1", Noun), MkItem("c2", Verb) >>) }

FormThemeResponses == { Reject, Data(<< MkItem("t1", Nature) >>) }

FormLanguageResponses ==
    { Reject, Undefined, NonArray,
      Data(<< MkItem("l1", French), MkItem("l2", English) >>) }

\* What the user may type into a text input (the whole content of the input).
TermInputs == { << "c","h","a","t" >> }
TranslationInputs == { << "c","A","T" >> }
DefinitionInputs == { Animal }
FreeTextInputs == { EmptyString, << "v","e","r","b" >>, << "v","E","R","b" >> }

(***************************************************************************)
(* TermForm: loading the taxonomy (fetchData)                              *)
(***************************************************************************)
\* Variant of getCategoriesSettles: a rejection is recorded and the load goes
\* on to getThemes with no categories.
getCategoriesSettlesAndGoesOn ==
    /\ location = FormPath
    /\ fetchDataPc = "getCategories"
    /\ IF formNet.categories.kind = "reject"
       THEN /\ error' = LoadErrorMessage
            /\ fetchDataPc' = "getThemes"
            /\ categoriesData' = << >>
       ELSE /\ categoriesData' = formNet.categories.data
            /\ fetchDataPc' = "getThemes"
            /\ UNCHANGED error
    /\ UNCHANGED << termId, initialData, term, definition, translation,
                    grammaticalCategory, theme, language, newCategory, newTheme,
                    newLanguage, formCategories, themeOptions, languageOptions,
                    loading, showModal, modalMessage, formNet, themesData,
                    defaultsEffectPending, submitRequests, location >>
    /\ UNCHANGED listVars

\* getCategories settles: a rejection goes to the catch block, a value is
\* kept in categoriesData and getThemes is called.
getCategoriesSettles ==
    /\ location = FormPath
    /\ fetchDataPc = "getCategories"
    /\ IF formNet.categories.kind = "reject"
       THEN /\ error' = LoadErrorMessage
            /\ fetchDataPc' = "failed"
            /\ UNCHANGED categoriesData
       ELSE /\ categoriesData' = formNet.categories.data
            /\ fetchDataPc' = "getThemes"
            /\ UNCHANGED error
    /\ UNCHANGED << termId, initialData, term, definition, translation,
                    grammaticalCategory, theme, language, newCategory, newTheme,
                    newLanguage, formCategories, themeOptions, languageOptions,
                    loading, showModal, modalMessage, formNet, themesData,
                    defaultsEffectPending, submitRequests, location >>
    /\ UNCHANGED listVars

\* getThemes settles: as above, then getLanguages is called.
getThemesSettles ==
    /\ location = FormPath
    /\ fetchDataPc = "getThemes"
    /\ IF formNet.themes.kind = "reject"
       THEN /\ error' = LoadErrorMessage
            /\ fetchDataPc' = "failed"
            /\ UNCHANGED themesData
       ELSE /\ themesData' = formNet.themes.data
            /\ fetchDataPc' = "getLanguages"
            /\ UNCHANGED error
    /\ UNCHANGED << termId, initialData, term, definition, translation,
                    grammaticalCategory, theme, language, newCategory, newTheme,
                    newLanguage, formCategories, themeOptions, languageOptions,
                    loading, showModal, modalMessage, formNet, categoriesData,
                    defaultsEffectPending, submitRequests, location >>
    /\ UNCHANGED listVars

\* Variant of getLanguagesSettles: the three lists are stored as fetched,
\* without the synthetic "Other" option.
getLanguagesSettlesWithoutOther ==
    /\ location = FormPath
    /\ fetchDataPc = "getLanguages"
    /\ LET languagesData == formNet.languages IN
       IF languagesData.kind = "reject"
       THEN /\ error' = LoadErrorMessage
            /\ fetchDataPc' = "failed"
            /\ UNCHANGED << formCategories, themeOptions, languageOptions,
                            grammaticalCategory, theme, language,
                            defaultsEffectPending >>
       ELSE /\ formCategories' = categoriesData
            /\ themeOptions' = themesData
            /\ languageOptions' =
                  IF languagesData.kind = "data"
                  THEN languagesData.data
                  ELSE << >>
            /\ grammaticalCategory' =
                  IF Len(categoriesData) > 0 /\ initialData.grammaticalCategory = EmptyString
                  THEN categoriesData[1].name
                  ELSE grammaticalCategory
            /\ theme' =
                  IF Len(themesData) > 0 /\ initialData.theme = EmptyString
                  THEN themesData[1].name
                  ELSE theme
            /\ language' =
                  IF /\ languagesData.kind = "data"
                     /\ Len(languagesData.data) > 0
                     /\ initialData.language = EmptyString
                  THEN languagesData.data[1].name
                  ELSE language
            /\ IF languagesData.kind = "undefined"
               THEN error' = LoadErrorMessage /\ fetchDataPc' = "failed"
               ELSE UNCHANGED error /\ fetchDataPc' = "done"
            /\ defaultsEffectPending' = TRUE
    /\ UNCHANGED << termId, initialData, term, definition, translation, newCategory,
                    newTheme, newLanguage, loading, showModal, modalMessage, formNet,
                    categoriesData, themesData, submitRequests, location >>
    /\ UNCHANGED listVars

\* getLanguages settles.  On a value the rest of the try block runs: the three
\* option lists are stored, then the three default selections.  Reading
\* languagesData.length throws on undefined, after the stores before it; an
\* object that is no array has no length, and undefined > 0 is false.
getLanguagesSettles ==
    /\ location = FormPath
    /\ fetchDataPc = "getLanguages"
    /\ LET languagesData == formNet.languages IN
       IF languagesData.kind = "reject"
       THEN /\ error' = LoadErrorMessage
            /\ fetchDataPc' = "failed"
            /\ UNCHANGED << formCategories, themeOptions, languageOptions,
                            grammaticalCategory, theme, language,
                            defaultsEffectPending >>
       ELSE /\ formCategories' = Append(categoriesData, OtherItem)
            /\ themeOptions' = Append(themesData, OtherItem)
            /\ languageOptions' =
                  IF languagesData.kind = "data"
                  THEN Append(languagesData.data, OtherItem)
                  ELSE << >>
            /\ grammaticalCategory' =
                  IF Len(categoriesData) > 0 /\ initialData.grammaticalCategory = EmptyString
                  THEN categoriesData[1].name
                  ELSE grammaticalCategory
            /\ theme' =
                  IF Len(themesData) > 0 /\ initialData.theme = EmptyString
                  THEN themesData[1].name
                  ELSE theme
            /\ language' =
                  IF /\ languagesData.kind = "data"
                     /\ Len(languagesData.data) > 0
                     /\ initialData.language = EmptyString
                  THEN languagesData.data[1].name
                  ELSE language
            /\ IF languagesData.kind = "undefined"
               THEN error' = LoadErrorMessage /\ fetchDataPc' = "failed"
               ELSE UNCHANGED error /\ fetchDataPc' = "done"
            /\ defaultsEffectPending' = TRUE
    /\ UNCHANGED << termId, initialData, term, definition, translation, newCategory,
                    newTheme, newLanguage, loading, showModal, modalMessage, formNet,
                    categoriesData, themesData, submitRequests, location >>
    /\ UNCHANGED listVars

\* Variant of RunDefaultSelectionEffect: the first option is selected whether
\* or not an initial value was given.
RunDefaultSelectionEffectAlways ==
    /\ location = FormPath
    /\ defaultsEffectPending
    /\ grammaticalCategory' =
          IF Len(formCategories) > 0 THEN formCategories[1].name ELSE grammaticalCategory
    /\ theme' = IF Len(themeOptions) > 0 THEN themeOptions[1].name ELSE theme
    /\ language' = IF Len(languageOptions) > 0 THEN languageOptions[1].name ELSE language
    /\ defaultsEffectPending' = FALSE
    /\ UNCHANGED << termId, initialData, term, definition, translation, newCategory,
                    newTheme, newLanguage, formCategories, themeOptions,
                    languageOptions, loading, error, showModal, modalMessage,
                    fetchDataPc, formNet, categoriesData, themesData, submitRequests,
                    location >>
    /\ UNCHANGED listVars

\* The default-selection effect, run after a commit that stored new option
\* lists.
RunDefaultSelectionEffect ==
    /\ location = FormPath
    /\ defaultsEffectPending
    /\ grammaticalCategory' =
          IF Len(formCategories) > 0 /\ initialData.grammaticalCategory = EmptyString
          THEN formCategories[1].name
          ELSE grammaticalCategory
    /\ theme' =
          IF Len(themeOptions) > 0 /\ initialData.theme = EmptyString
          THEN themeOptions[1].name
          ELSE theme
    /\ language' =
          IF Len(languageOptions) > 0 /\ initialData.language = EmptyString
          THEN languageOptions[1].name
          ELSE language
    /\ defaultsEffectPending' = FALSE
    /\ UNCHANGED << termId, initialData, term, definition, translation, newCategory,
                    newTheme, newLanguage, formCategories, themeOptions,
                    languageOptions, loading, error, showModal, modalMessage,
                    fetchDataPc, formNet, categoriesData, themesData, submitRequests,
                    location >>
    /\ UNCHANGED listVars

(***************************************************************************)
(* TermForm: text inputs and dropdowns                                     *)
(***************************************************************************)
\* capitalizeWord
capitalizeWord(word) ==
    toUpperCase(charAt(word, 0)) \o toLowerCase(sliceFrom(word, 1))

\* The user may act on the form: it is mounted and no effect is pending
\* (React runs the pending effects of a commit before the next event).
formInteractive == location = FormPath /\ ~defaultsEffectPending

\* onChange of the term input.
termInput(value) ==
    /\ formInteractive
    /\ term' = capitalizeWord(value)
    /\ UNCHANGED << termId, initialData, definition, translation, grammaticalCategory,
                    theme, language, newCategory, newTheme, newLanguage,
                    formCategories, themeOptions, languageOptions, loading, error,
                    showModal, modalMessage, fetchDataPc, formNet, categoriesData,
                    themesData, defaultsEffectPending, submitRequests, location >>
    /\ UNCHANGED listVars

\* onChange of the translation input.
translationInput(value) ==
    /\ formInteractive
    /\ translation' = capitalizeWord(value)
    /\ UNCHANGED << termId, initialData, term, definition, grammaticalCategory,
                    theme, language, newCategory, newTheme, newLanguage,
                    formCategories, themeOptions, languageOptions, loading, error,
                    showModal, modalMessage, fetchDataPc, formNet, categoriesData,
                    themesData, defaultsEffectPending, submitRequests, location >>
    /\ UNCHANGED listVars

\* onChange of the definition textarea: the text is stored as typed.
definitionInput(value) ==
    /\ formInteractive
    /\ definition' = value
    /\ UNCHANGED << termId, initialData, term, translation, grammaticalCategory,
                    theme, language, newCategory, newTheme, newLanguage,
                    formCategories, themeOptions, languageOptions, loading, error,
                    showModal, modalMessage, fetchDataPc, formNet, categoriesData,
                    themesData, defaultsEffectPending, submitRequests, location >>
    /\ UNCHANGED listVars

\* The option a <select value={value}> shows: the option of that value, else
\* the first option, else nothing.
selectValue(options, value) ==
    IF Len(options) = 0 THEN EmptyString
    ELSE IF value \in optionNames(options) THEN value
    ELSE options[1].name

\* handleCategoryChange: the change event carries an option other than the
\* one shown.
handleCategoryChange(value) ==
    /\ formInteractive
    /\ value \in optionNames(formCategories)
    /\ value # selectValue(formCategories, grammaticalCategory)
    /\ grammaticalCategory' = value
    /\ newCategory' = IF value # Other THEN EmptyString ELSE newCategory
    /\ UNCHANGED << termId, initialData, term, definition, translation, theme,
                    language, newTheme, newLanguage, formCategories, themeOptions,
                    languageOptions, loading, error, showModal, modalMessage,
                    fetchDataPc, formNet, categoriesData, themesData,
                    defaultsEffectPending, submitRequests, location >>
    /\ UNCHANGED listVars

\* Variant of handleThemeChange: the free text is kept whatever is selected.
handleThemeChangeKeepsFreeText(value) ==
    /\ formInteractive
    /\ value \in optionNames(themeOptions)
    /\ value # selectValue(themeOptions, theme)
    /\ theme' = value
    /\ UNCHANGED newTheme
    /\ UNCHANGED << termId, initialData, term, definition, translation,
                    grammaticalCategory, language, newCategory, newLanguage,
                    formCategories, themeOptions, languageOptions, loading, error,
                    showModal, modalMessage, fetchDataPc, formNet, categoriesData,
                    themesData, defaultsEffectPending, submitRequests, location >>
    /\ UNCHANGED listVars

\* handleThemeChange
handleThemeChange(value) ==
    /\ formInteractive
    /\ value \in optionNames(themeOptions)
    /\ value # selectValue(themeOptions, theme)
    /\ theme' = value
    /\ newTheme' = IF value # Other THEN EmptyString ELSE newTheme
    /\ UNCHANGED << termId, initialData, term, definition, translation,
                    grammaticalCategory, language, newCategory, newLanguage,
                    formCategories, themeOptions, languageOptions, loading, error,
                    showModal, modalMessage, fetchDataPc, formNet, categoriesData,
                    themesData, defaultsEffectPending, submitRequests, location >>
    /\ UNCHANGED listVars

\* handleLanguageChange
handleLanguageChange(value) ==
    /\ formInteractive
    /\ value \in optionNames(languageOptions)
    /\ value # selectValue(languageOptions, language)
    /\ language' = value
    /\ newLanguage' = IF value # Other THEN EmptyString ELSE newLanguage
    /\ UNCHANGED << termId, initialData, term, definition, translation,
                    grammaticalCategory, theme, newCategory, newTheme,
                    formCategories, themeOptions, languageOptions, loading, error,
                    showModal, modalMessage, fetchDataPc, formNet, categoriesData,
                    themesData, defaultsEffectPending, submitRequests, location >>
    /\ UNCHANGED listVars

\* onChange of the "New Grammatical Category" input, rendered only while the
\* selection is "Other".
newCategoryInput(value) ==
    /\ formInteractive
    /\ grammaticalCategory = Other
    /\ newCategory' = capitalizeWord(value)
    /\ UNCHANGED << termId, initialData, term, definition, translation,
                    grammaticalCategory, theme, language, newTheme, newLanguage,
                    formCategories, themeOptions, languageOptions, loading, error,
                    showModal, modalMessage, fetchDataPc, formNet, categoriesData,
                    themesData, defaultsEffectPending, submitRequests, location >>
    /\ UNCHANGED listVars

\* onChange of the "New Theme" input.
newThemeInput(value) ==
    /\ formInteractive
    /\ theme = Other
    /\ newTheme' = capitalizeWord(value)
    /\ UNCHANGED << termId, initialData, term, definition, translation,
                    grammaticalCategory, theme, language, newCategory, newLanguage,
                    formCategories, themeOptions, languageOptions, loading, error,
                    showModal, modalMessage, fetchDataPc, formNet, categoriesData,
                    themesData, defaultsEffectPending, submitRequests, location >>
    /\ UNCHANGED listVars

\* onChange of the "New Language" input.
newLanguageInput(value) ==
    /\ formInteractive
    /\ language = Other
    /\ newLanguage' = capitalizeWord(value)
    /\ UNCHANGED << termId, initialData, term, definition, translation,
                    grammaticalCategory, theme, language, newCategory, newTheme,
                    formCategories, themeOptions, languageOptions, loading, error,
                    showModal, modalMessage, fetchDataPc, formNet, categoriesData,
                    themesData, defaultsEffectPending, submitRequests, location >>
    /\ UNCHANGED listVars

(***************************************************************************)
(* TermForm: submission                                                    *)
(***************************************************************************)
\* Variant of termData: the dropdown values are sent as they are, "Other"
\* included.
termDataWithoutOther ==
    [ term |-> term, translation |-> translation, definition |-> definition,
      grammaticalCategory |-> grammaticalCategory, theme |-> theme,
      language |-> language ]

\* const termData = {...}
termData ==
    [ term |-> term,
      translation |-> translation,
      definition |-> definition,
      grammaticalCategory |->
          IF grammaticalCategory = Other THEN newCategory ELSE grammaticalCategory,
      theme |-> IF theme = Other THEN newTheme ELSE theme,
      language |-> IF language = Other THEN newLanguage ELSE language ]

\* The request handleSubmit sends: updateTerm(termId, termData) when termId
\* is given, addTerm(termData) otherwise.
submitRequest ==
    [ op |-> IF termId # EmptyString THEN "updateTerm" ELSE "addTerm",
      termId |-> termId, data |-> termData ]

\* Variant of canSubmit: the submit button is never disabled.
canSubmitWhileLoading ==
    /\ term # EmptyString
    /\ translation # EmptyString
    /\ definition # EmptyString
    /\ selectValue(formCategories, grammaticalCategory) # EmptyString
    /\ selectValue(themeOptions, theme) # EmptyString
    /\ selectValue(languageOptions, language) # EmptyString

\* The browser submits the form: the submit button is not disabled, and every
\* `required` control has a value.
canSubmit ==
    /\ ~loading
    /\ term # EmptyString
    /\ translation # EmptyString
    /\ definition # EmptyString
    /\ selectValue(formCategories, grammaticalCategory) # EmptyString
    /\ selectValue(themeOptions, theme) # EmptyString
    /\ selectValue(languageOptions, language) # EmptyString

\* handleSubmit, up to the await of the request.
handleSubmit ==
    /\ formInteractive
    /\ canSubmit
    /\ loading' = TRUE
    /\ error' = Null
    /\ submitRequests' = Append(submitRequests, submitRequest)
    /\ UNCHANGED << termId, initialData, term, definition, translation,
                    grammaticalCategory, theme, language, newCategory, newTheme,
                    newLanguage, formCategories, themeOptions, languageOptions,
                    showModal, modalMessage, fetchDataPc, formNet, categoriesData,
                    themesData, defaultsEffectPending, location >>
    /\ UNCHANGED listVars

\* The sequence without its i-th element.
removeAt(seq, i) == SubSeq(seq, 1, i - 1) \o SubSeq(seq, i + 1, Len(seq))

\* handleSubmit, after the request resolved: the try block's tail, then
\* finally.  State updates of an unmounted component are dropped.
submitResolves(i) ==
    /\ i \in 1..Len(submitRequests)
    /\ submitRequests' = removeAt(submitRequests, i)
    /\ IF location = FormPath
       THEN /\ modalMessage' = SuccessMessage
            /\ showModal' = TRUE
            /\ loading' = FALSE
       ELSE UNCHANGED << modalMessage, showModal, loading >>
    /\ UNCHANGED << termId, initialData, term, definition, translation,
                    grammaticalCategory, theme, language, newCategory, newTheme,
                    newLanguage, formCategories, themeOptions, languageOptions,
                    error, fetchDataPc, formNet, categoriesData, themesData,
                    defaultsEffectPending, location >>
    /\ UNCHANGED listVars

\* Variant of submitRejects: the dialog is opened in the finally block.
submitRejectsOpensDialog(i) ==
    /\ i \in 1..Len(submitRequests)
    /\ submitRequests' = removeAt(submitRequests, i)
    /\ IF location = FormPath
       THEN /\ error' = SubmitErrorMessage
            /\ loading' = FALSE
            /\ showModal' = TRUE
       ELSE UNCHANGED << error, loading, showModal >>
    /\ UNCHANGED << termId, initialData, term, definition, translation,
                    grammaticalCategory, theme, language, newCategory, newTheme,
                    newLanguage, formCategories, themeOptions, languageOptions,
                    modalMessage, fetchDataPc, formNet, categoriesData,
                    themesData, defaultsEffectPending, location >>
    /\ UNCHANGED listVars

\* handleSubmit, after the request rejected: the catch block, then finally.
submitRejects(i) ==
    /\ i \in 1..Len(submitRequests)
    /\ submitRequests' = removeAt(submitRequests, i)
    /\ IF location = FormPath
       THEN /\ error' = SubmitErrorMessage
            /\ loading' = FALSE
       ELSE UNCHANGED << error, loading >>
    /\ UNCHANGED << termId, initialData, term, definition, translation,
                    grammaticalCategory, theme, language, newCategory, newTheme,
                    newLanguage, formCategories, themeOptions, languageOptions,
                    showModal, modalMessage, fetchDataPc, formNet, categoriesData,
                    themesData, defaultsEffectPending, location >>
    /\ UNCHANGED listVars

\* handleCloseModal: the OK button of the dialog, rendered while showModal.
handleCloseModal ==
    /\ formInteractive
    /\ showModal
    /\ showModal' = FALSE
    /\ location' = RootPath
    /\ UNCHANGED << termId, initialData, term, definition, translation,
                    grammaticalCategory, theme, language, newCategory, newTheme,
                    newLanguage, formCategories, themeOptions, languageOptions,
                    loading, error, modalMessage, fetchDataPc, formNet,
                    categoriesData, themesData, defaultsEffectPending,
                    submitRequests >>
    /\ UNCHANGED listVars

(***************************************************************************)
(* The two views                                                           *)
(***************************************************************************)
\* The form's state on mount, for given props: the useState initial values,
\* fetchData started (getCategories called), the default-selection effect
\* run once on the empty option lists.
formMounted(props) ==
    /\ termId = props.termId
    /\ initialData = props.initialData
    /\ term = props.initialData.term
    /\ definition = props.initialData.definition
    /\ translation = props.initialData.translation
    /\ grammaticalCategory = props.initialData.grammaticalCategory
    /\ theme = props.initialData.theme
    /\ language = props.initialData.language
    /\ newCategory = EmptyString
    /\ newTheme = EmptyString
    /\ newLanguage = EmptyString
    /\ formCategories = << >>
    /\ themeOptions = << >>
    /\ languageOptions = << >>
    /\ loading = FALSE
    /\ error = Null
    /\ showModal = FALSE
    /\ modalMessage = ""
    /\ fetchDataPc = "getCategories"
    /\ categoriesData = << >>
    /\ themesData = << >>
    /\ defaultsEffectPending = FALSE
    /\ submitRequests = << >>

\* The listing view's state on mount.
listMounted ==
    /\ terms = << >>
    /\ filteredTerms = << >>
    /\ categories = << >>
    /\ selectedCategory = EmptyString
    /\ themes = << >>
    /\ selectedTheme = EmptyString
    /\ languages = << >>
    /\ selectedLanguage = EmptyString
    /\ searchTerm = EmptyString
    /\ currentPage = 1
    /\ listDone = [terms |-> FALSE, categories |-> FALSE, themes |-> FALSE,
                   languages |-> FALSE]
    /\ authErrorCalls = 0
    /\ filterEffectPending = FALSE
    /\ clickTrail = << >>

\* The listing view at the root path: the four requests issued, the filter
\* effect run once on the empty list.
InitList ==
    /\ listMounted
    /\ listNet \in [ terms : TermResponses, categories : CategoryResponses,
                     themes : ThemeResponses, languages : LanguageResponses ]
    /\ location = RootPath
    /\ formMounted([termId |-> EmptyString, initialData |-> NoInitialData])
    /\ formNet = [categories |-> Reject, themes |-> Reject, languages |-> Reject]

NextList ==
    \/ fetchApprovedTerms
    \/ fetchCategories
    \/ fetchThemes
    \/ fetchLanguages
    \/ RunFilterEffect
    \/ \E option \in optionNames(categories) : selectCategory(option)
    \/ \E option \in optionNames(themes) : selectTheme(option)
    \/ \E option \in optionNames(languages) : selectLanguage(option)
    \/ \E value \in SearchInputs : handleSearchChange(value)
    \/ \E pageNumber \in pageNumbers(Len(filteredTerms)) : paginate(pageNumber)

SpecList == InitList /\ [][NextList]_vars

\* Sequences over S of at most n elements.
SeqUpTo(S, n) == UNION { [1..k -> S] : k \in 0..n }

\* Terms, option lists and search texts for the filter on its own: short texts
\* over a, A, b, with empty texts and texts differing only in case.
FilterTermUniverse ==
    { MkTerm(1, << "A","b" >>, << "b","b" >>, Noun, Nature, French),
      MkTerm(2, << "b","a" >>, << "A" >>, Adjective, Nature, French),
      MkTerm(3, << "B" >>, << "a","B" >>, Noun, Speed, English),
      MkTerm(4, EmptyString, EmptyString, Adjective, Speed, French),
      MkTerm(5, << "a","A" >>, << "b" >>, Verb, Nature, English) }

FilterCategories == << MkOption(Noun, TRUE), MkOption(Adjective, TRUE) >>
FilterThemes == << MkOption(Nature, TRUE), MkOption(Speed, TRUE) >>
FilterLanguages == << MkOption(French, TRUE) >>
SearchAlphabet == { "a", "A", "b" }

\* The listing view with everything fetched, some selection made and some
\* search text typed, before the filter effect runs.
InitFilter ==
    /\ terms \in SeqUpTo(FilterTermUniverse, MaxFilterLen)
    /\ filteredTerms = terms
    /\ categories = FilterCategories
    /\ themes = FilterThemes
    /\ languages = FilterLanguages
    /\ selectedCategory \in {EmptyString} \cup optionNames(categories)
    /\ selectedTheme \in {EmptyString} \cup optionNames(themes)
    /\ selectedLanguage \in {EmptyString} \cup optionNames(languages)
    /\ searchTerm \in SeqUpTo(SearchAlphabet, MaxSearchLen)
    /\ currentPage = 1
    /\ listNet = [terms |-> Data(terms), categories |-> Data(FilterCategories),
                  themes |-> Data(FilterThemes), languages |-> Data(FilterLanguages)]
    /\ listDone = [terms |-> TRUE, categories |-> TRUE, themes |-> TRUE,
                   languages |-> TRUE]
    /\ authErrorCalls = 0
    /\ filterEffectPending = TRUE
    /\ clickTrail = << >>
    /\ location = RootPath
    /\ formMounted([termId |-> EmptyString, initialData |-> NoInitialData])
    /\ formNet = [categories |-> Reject, themes |-> Reject, languages |-> Reject]

NextFilter == RunFilterEffect

SpecFilter == InitFilter /\ [][NextFilter]_vars

\* The form at its route, for every choice of props and of answers to the
\* three taxonomy requests.
InitForm ==
    /\ listMounted
    /\ listNet = [terms |-> Reject, categories |-> Reject, themes |-> Reject,
                  languages |-> Reject]
    /\ location = FormPath
    /\ \E props \in FormProps : formMounted(props)
    /\ formNet \in [ categories : FormCategoryResponses, themes : FormThemeResponses,
                     languages : FormLanguageResponses ]

NextForm ==
    \/ getCategoriesSettles
    \/ getThemesSettles
    \/ getLanguagesSettles
    \/ RunDefaultSelectionEffect
    \/ \E value \in TermInputs : termInput(value)
    \/ \E value \in TranslationInputs : translationInput(value)
    \/ \E value \in DefinitionInputs : definitionInput(value)
    \/ \E value \in optionNames(formCategories) : handleCategoryChange(value)
    \/ \E value \in optionNames(themeOptions) : handleThemeChange(value)
    \/ \E value \in optionNames(languageOptions) : handleLanguageChange(value)
    \/ \E value \in FreeTextInputs : newCategoryInput(value)
    \/ \E value \in FreeTextInputs : newThemeInput(value)
    \/ \E value \in FreeTextInputs : newLanguageInput(value)
    \/ handleSubmit
    \/ \E i \in 1..Len(submitRequests) : submitResolves(i)
    \/ \E i \in 1..Len(submitRequests) : submitRejects(i)
    \/ handleCloseModal

SpecForm == InitForm /\ [][NextForm]_vars

(***************************************************************************)
(* Properties of the listing view                                          *)
(***************************************************************************)
\* Two characters are the same letter, whatever their case.
sameLetter(a, b) ==
    \/ a = b
    \/ \E i \in 1..Len(UpperAlphabet) : {a, b} = {UpperAlphabet[i], LowerAlphabet[i]}

\* needle occurs in hay, letter case ignored.
occursIgnoringCase(needle, hay) ==
    \E p \in 0..(Len(hay) - Len(needle)) :
        \A k \in 1..Len(needle) : sameLetter(hay[p + k], needle[k])

\* The four-condition conjunction of the listing view's filter.
meetsFilters(t) ==
    /\ selectedCategory = EmptyString \/ t.grammaticalCategory.name = selectedCategory
    /\ selectedTheme = EmptyString \/ t.theme.name = selectedTheme
    /\ selectedLanguage = EmptyString \/ t.language.name = selectedLanguage
    /\ \/ searchTerm = EmptyString
       \/ occursIgnoringCase(searchTerm, t.term)
       \/ occursIgnoringCase(searchTerm, t.definition)

\* sub is the sub-sequence of seq, order kept, of the elements at the
\* positions in keep.
isSubsequenceAt(sub, seq, keep) ==
    /\ Len(sub) = Cardinality(keep)
    /\ \A i \in keep : sub[Cardinality({j \in keep : j <= i})] = seq[i]

\* C1: once the filter effect has run, the filtered list is exactly the
\* sub-sequence, in the original order, of the terms that meet the selected
\* category, theme and language (each only when one is selected) and whose
\* term or definition contains the search text, letter case ignored.
C1_FilteredIsExactSubsequence ==
    ~filterEffectPending =>
        isSubsequenceAt(filteredTerms, terms,
                        {i \in 1..Len(terms) : meetsFilters(terms[i])})

\* C1 witness: of two terms the effect dropped the first and kept the second,
\* with a category selected and a search text that matches only when case is
\* ignored.
C1_Witness ==
    /\ ~filterEffectPending
    /\ Len(terms) = 2
    /\ filteredTerms = << terms[2] >>
    /\ terms[1] # terms[2]
    /\ selectedCategory # EmptyString
    /\ searchTerm # EmptyString
    /\ ~includes(terms[2].term, searchTerm)
    /\ ~includes(terms[2].definition, searchTerm)

\* C2: the displayed items of page k are the filtered items at the 0-based
\* indices i with 10(k-1) <= i < min(10k, N), and none when 10(k-1) >= N.
C2_PageShowsItsSlice ==
    LET N == Len(filteredTerms)
        k == currentPage
        lo == 10 * (k - 1)
        hi == IF 10 * k < N THEN 10 * k ELSE N
    IN  /\ k >= 1
        /\ IF lo >= N
           THEN currentTerms = << >>
           ELSE /\ Len(currentTerms) = hi - lo
                /\ \A i \in lo..(hi - 1) : currentTerms[i - lo + 1] = filteredTerms[i + 1]

\* C2 witness: a page past the end of a filtered list that is not empty
\* shows nothing.
C2_Witness ==
    /\ currentPage >= 2
    /\ filteredTerms # << >>
    /\ 10 * (currentPage - 1) >= Len(filteredTerms)
    /\ currentTerms = << >>

\* The selection of a filter dimension.
selectionOf(dim) ==
    CASE dim = "category" -> selectedCategory
      [] dim = "theme" -> selectedTheme
      [] dim = "language" -> selectedLanguage

\* C3: a click on option x stores '' when x was the selection and x
\* otherwise; after two clicks in a row on x from a cleared dimension the
\* dimension is cleared again and, once the effect has run, the filtered list
\* is the one found by the first click.
C3_ToggleSelectsThenClears ==
    /\ clickTrail # << >> =>
          LET c == clickTrail[Len(clickTrail)]
          IN  selectionOf(c.dim) =
                 IF c.selBefore = c.option THEN EmptyString ELSE c.option
    /\ (Len(clickTrail) = 2 /\ clickTrail[1].selBefore = EmptyString) =>
          /\ selectionOf(clickTrail[1].dim) = EmptyString
          /\ ~filterEffectPending => filteredTerms = clickTrail[1].filteredBefore

\* C3 witness: two clicks in a row on one option of a cleared dimension, the
\* first of which had narrowed the list, and the effect has run.
C3_Witness ==
    /\ Len(clickTrail) = 2
    /\ clickTrail[1].selBefore = EmptyString
    /\ ~filterEffectPending
    /\ clickTrail[2].filteredBefore # clickTrail[1].filteredBefore
    /\ clickTrail[2].filteredBefore # << >>
    /\ filteredTerms = clickTrail[1].filteredBefore

\* What a settled taxonomy request leaves in its option list.
optionsAfter(done, response) ==
    IF done /\ response.kind = "data"
    THEN SelectSeq(response.data, LAMBDA o : o.isApproved)
    ELSE << >>

\* A taxonomy request settles in this step without an array to show.
taxonomyFails(d) == ~listDone[d] /\ listDone'[d] /\ listNet[d].kind # "data"

\* The terms request is rejected in this step.
termsFetchFails == ~listDone.terms /\ listDone'.terms /\ listNet.terms.kind = "reject"

\* C9: whatever the answers of the four requests and the order they settle
\* in, each option list holds the approved items of its own answer, or
\* nothing when its request failed; terms holds the answer of the terms
\* request, or nothing; handleAuthError has been called exactly when the
\* terms request was rejected.  A failing taxonomy request changes nothing of
\* the view's state; a rejected terms request calls handleAuthError and
\* changes nothing else.
C9_FetchesFailIndependently ==
    /\ [](/\ categories = optionsAfter(listDone.categories, listNet.categories)
          /\ themes = optionsAfter(listDone.themes, listNet.themes)
          /\ languages = optionsAfter(listDone.languages, listNet.languages)
          /\ terms = IF listDone.terms /\ listNet.terms.kind = "data"
                     THEN listNet.terms.data ELSE << >>
          /\ authErrorCalls =
                IF listDone.terms /\ listNet.terms.kind = "reject" THEN 1 ELSE 0)
    /\ [][ /\ \A d \in {"categories", "themes", "languages"} :
                taxonomyFails(d) =>
                    UNCHANGED << terms, filteredTerms, categories, themes, languages,
                                 selectedCategory, selectedTheme, selectedLanguage,
                                 searchTerm, currentPage, authErrorCalls >>
           /\ termsFetchFails =>
                 /\ authErrorCalls' = authErrorCalls + 1
                 /\ UNCHANGED << terms, filteredTerms, categories, themes, languages,
                                 selectedCategory, selectedTheme, selectedLanguage,
                                 searchTerm, currentPage >> ]_vars

\* C9 witness: all four requests have settled; categories and terms failed,
\* themes and languages were populated all the same.
C9_Witness ==
    /\ \A d \in DOMAIN listDone : listDone[d]
    /\ listNet.categories.kind = "reject"
    /\ listNet.terms.kind = "reject"
    /\ categories = << >>
    /\ themes # << >>
    /\ languages # << >>
    /\ authErrorCalls = 1

\* C10: once the pending effect has run, the stored filtered list is the
\* filter applied to the current terms, selections and search text, and no
\* displayed term violates an active filter.
C10_FilteredFollowsItsInputs ==
    ~filterEffectPending =>
        /\ filteredTerms =
              filterTerms(terms, selectedCategory, selectedTheme, selectedLanguage,
                          searchTerm)
        /\ \A i \in 1..Len(currentTerms) : meetsFilters(currentTerms[i])

\* C10 witness: terms have been fetched with a category selected and a search
\* text typed, the effect has run, and the list is a proper, non-empty part of
\* the terms.
C10_Witness ==
    /\ ~filterEffectPending
    /\ listDone.terms
    /\ selectedCategory # EmptyString
    /\ searchTerm # EmptyString
    /\ filteredTerms # << >>
    /\ Len(filteredTerms) < Len(terms)

(***************************************************************************)
(* Properties of the submission form                                       *)
(***************************************************************************)
\* A word with its first character upper-cased and the others lower-cased.
upperFirstLowerRest(w) ==
    [i \in 1..Len(w) |-> IF i = 1 THEN UpperChar(w[i]) ELSE LowerChar(w[i])]

\* The value submitted for a field with dropdown selection sel and free text
\* free.
submittedFor(sel, free) == IF sel = Other THEN free ELSE sel

\* A request is sent in this step.
requestSent == Len(submitRequests') = Len(submitRequests) + 1

\* C4: each free-text input stores what was typed with the first character
\* upper-cased and the rest lower-cased; the payload of a submission carries,
\* for each of the three fields, the free text when the dropdown selection is
\* "Other" and the selection otherwise.
C4_OtherSubmitsFreeText ==
    [][ /\ \A v \in FreeTextInputs :
              /\ newCategoryInput(v) => newCategory' = upperFirstLowerRest(v)
              /\ newThemeInput(v) => newTheme' = upperFirstLowerRest(v)
              /\ newLanguageInput(v) => newLanguage' = upperFirstLowerRest(v)
        /\ requestSent =>
              LET sent == submitRequests'[Len(submitRequests')].data
              IN  /\ sent.grammaticalCategory = submittedFor(grammaticalCategory, newCategory)
                  /\ sent.theme = submittedFor(theme, newTheme)
                  /\ sent.language = submittedFor(language, newLanguage) ]_vars

\* C4 witness: "Other" is selected for the category, the free text typed as
\* "verb" or "vERb" is stored as "Verb", and the request in flight carries
\* "Verb", which is not an option of the dropdown; the theme of the same
\* request is the dropdown's selection.
C4_Witness ==
    /\ Len(submitRequests) = 1
    /\ grammaticalCategory = Other
    /\ newCategory = Verb
    /\ submitRequests[1].data.grammaticalCategory = Verb
    /\ Verb \notin optionNames(formCategories)
    /\ theme = Nature
    /\ submitRequests[1].data.theme = Nature

\* The value claimed for a dropdown right after the load: the initial value
\* when one was given, else the name of the first fetched item.
claimedDefault(initial, fetched, selected) ==
    /\ initial # EmptyString => selected = initial
    /\ (initial = EmptyString /\ Len(fetched) > 0) => selected = fetched[1].name

\* The default-selection effect has just run.
defaultsApplied == defaultsEffectPending /\ ~defaultsEffectPending'

\* C5: until its options are loaded a dropdown holds its initial value; when
\* the taxonomy has loaded and the default-selection effect has run, each
\* dropdown given no initial value holds the name of the first fetched item
\* of its collection, and each dropdown given one still holds it.
C5_DefaultsRespectInitialData ==
    /\ [](/\ formCategories = << >> => grammaticalCategory = initialData.grammaticalCategory
          /\ themeOptions = << >> => theme = initialData.theme
          /\ languageOptions = << >> => language = initialData.language)
    /\ [][ defaultsApplied =>
             /\ claimedDefault(initialData.grammaticalCategory,
                               formNet.categories.data, grammaticalCategory')
             /\ claimedDefault(initialData.theme, formNet.themes.data, theme')
             /\ formNet.languages.kind = "data" =>
                   claimedDefault(initialData.language, formNet.languages.data,
                                  language') ]_vars

\* C5 witness: loaded in edit mode with language "English" given and no
\* category given: the language is still "English", not the first fetched
\* "French", and the category is the first fetched one.
C5_Witness ==
    /\ fetchDataPc = "done"
    /\ ~defaultsEffectPending
    /\ initialData.language = English
    /\ language = English
    /\ languageOptions[1].name = French
    /\ initialData.grammaticalCategory = EmptyString
    /\ formNet.categories.data # << >>
    /\ grammaticalCategory = formNet.categories.data[1].name

\* C6: the dialog opens only in the step in which a create/update request
\* resolves; the path changes only in the step that dismisses the open
\* dialog, and then to the root path; the step in which a request rejects
\* neither opens the dialog nor changes the path.
C6_DialogOnSuccessThenNavigate ==
    [][ /\ (~showModal /\ showModal') =>
              \E i \in 1..Len(submitRequests) : submitResolves(i)
        /\ location' # location =>
              /\ showModal
              /\ handleCloseModal
              /\ location' = RootPath
        /\ \A i \in 1..Len(submitRequests) :
              submitRejects(i) => (showModal' = showModal /\ location' = location) ]_vars

\* C6 witness: the router is at the root path after the success dialog was
\* dismissed.
C6_Witness ==
    /\ location = RootPath
    /\ modalMessage = SuccessMessage
    /\ ~showModal

\* The form fields.
formFields ==
    << term, translation, definition, grammaticalCategory, theme, language,
       newCategory, newTheme, newLanguage >>

\* C7 (as claimed): when a request of the mounted form rejects, the error
\* message is set, loading is false, the dialog is not shown, no field has
\* changed, and no request is sent; a request is sent only by a submit.
C7_FailureLeavesFormForRetry ==
    [][ /\ \A i \in 1..Len(submitRequests) :
              (submitRejects(i) /\ location = FormPath) =>
                  /\ error' = SubmitErrorMessage
                  /\ ~loading'
                  /\ ~showModal'
                  /\ formFields' = formFields
                  /\ submitRequests' = << >>
        /\ requestSent => handleSubmit ]_vars

\* C8: at most one create/update request is in flight, and while the form is
\* mounted loading is true exactly while one is; while loading is true the
\* form cannot be submitted.
C8_OneRequestInFlight ==
    /\ Len(submitRequests) <= 1
    /\ location = FormPath => (loading <=> Len(submitRequests) = 1)
    /\ loading => ~ENABLED handleSubmit

\* C8 witness: a request is in flight with loading true, and the form has been
\* edited since it was sent.
C8_Witness ==
    /\ location = FormPath
    /\ loading
    /\ Len(submitRequests) = 1
    /\ submitRequests[1].data # termData

(***************************************************************************)
(* C11: the option lists after a load that did not throw                   *)
(***************************************************************************)
\* The items a response carries: the elements of an array, none otherwise.
fetchedItems(response) ==
    IF response.kind = "data" THEN response.data ELSE << >>

\* list is fetched with exactly one more element, the synthetic "Other", last.
fetchedThenOther(list, fetched) ==
    /\ Len(list) = Len(fetched) + 1
    /\ \A i \in 1..Len(fetched) : list[i] = fetched[i]
    /\ list[Len(list)] = OtherItem
    /\ Cardinality({i \in DOMAIN list : list[i] = OtherItem}) = 1

\* The load ran to the end of its try block.
loadCompleted == location = FormPath /\ fetchDataPc = "done"

\* C11 as stated: once the load has completed without throwing, each of the
\* three option lists is the fetched items followed by exactly one "Other",
\* for every response, an empty collection and a languages response that is
\* no array included.
C11_EveryListEndsWithOther ==
    loadCompleted =>
        /\ fetchedThenOther(formCategories, fetchedItems(formNet.categories))
        /\ fetchedThenOther(themeOptions, fetchedItems(formNet.themes))
        /\ fetchedThenOther(languageOptions, fetchedItems(formNet.languages))

\* C11 amended: once the load has completed without throwing, the category
\* list and the theme list are the fetched items followed by exactly one
\* "Other" (an empty collection gives the list of "Other" alone); the language
\* list is the same when the languages response is an array, and is empty,
\* with no "Other", when it is not an array.
C11_ListsEndWithOtherUnlessNoArray ==
    loadCompleted =>
        /\ fetchedThenOther(formCategories, formNet.categories.data)
        /\ fetchedThenOther(themeOptions, formNet.themes.data)
        /\ IF formNet.languages.kind = "data"
           THEN fetchedThenOther(languageOptions, formNet.languages.data)
           ELSE languageOptions = << >>

\* The load completed on an empty category collection and a languages response
\* that is no array: "Other" alone for the categories, nothing for the languages.
C11_Witness ==
    /\ loadCompleted
    /\ formNet.categories = Data(<< >>)
    /\ formCategories = << OtherItem >>
    /\ formNet.languages = NonArray
    /\ languageOptions = << >>
    /\ Len(themeOptions) = 2

(***************************************************************************)
(* C12: the three requests of the load and their failures                  *)
(***************************************************************************)
\* The option list of the form that belongs to a taxonomy.
optionList(d) ==
    CASE d = "categories" -> formCategories
      [] d = "themes" -> themeOptions
      [] d = "languages" -> languageOptions

Taxonomies == {"categories", "themes", "languages"}

\* The load has ended, by the end of the try block or by the catch block.
loadEnded == location = FormPath /\ fetchDataPc \in {"done", "failed"}

\* The request of taxonomy d is answered by a rejection.
rejects(d) == formNet[d].kind = "reject"

\* C12 as stated: the three requests are independent, a failure of one leaves
\* only its own field without options, and each of the other two lists is
\* populated from its own successful fetch.
C12_FailureEmptiesOnlyItsOwnList ==
    loadEnded =>
        \A d \in Taxonomies :
            /\ rejects(d) => optionList(d) = << >>
            /\ formNet[d].kind = "data" =>
                  fetchedThenOther(optionList(d), formNet[d].data)

\* C12 amended: the three requests are issued one after the other, getThemes
\* only once getCategories has resolved and getLanguages only once getThemes
\* has resolved; a rejection ends the load with the load error message and no
\* later request is issued; the three option lists are stored together, only
\* after all three requests have resolved, so when any of them rejects all
\* three lists stay empty, and when none rejects the category and theme lists
\* are populated.
C12_LoadIsSequentialAndAllOrNothing ==
    /\ [](location = FormPath =>
            /\ fetchDataPc = "getThemes" => ~rejects("categories")
            /\ fetchDataPc = "getLanguages" =>
                  ~rejects("categories") /\ ~rejects("themes")
            /\ ~loadEnded => \A d \in Taxonomies : optionList(d) = << >>
            /\ loadEnded /\ (\E d \in Taxonomies : rejects(d)) =>
                  /\ fetchDataPc = "failed"
                  /\ \A d \in Taxonomies : optionList(d) = << >>
            /\ loadEnded /\ (\A d \in Taxonomies : ~rejects(d)) =>
                  /\ fetchedThenOther(formCategories, formNet.categories.data)
                  /\ fetchedThenOther(themeOptions, formNet.themes.data))
    /\ [][fetchDataPc' # fetchDataPc =>
            /\ \/ /\ fetchDataPc = "getCategories"
                  /\ fetchDataPc' = IF rejects("categories") THEN "failed" ELSE "getThemes"
               \/ /\ fetchDataPc = "getThemes"
                  /\ fetchDataPc' = IF rejects("themes") THEN "failed" ELSE "getLanguages"
               \/ /\ fetchDataPc = "getLanguages"
                  /\ fetchDataPc' \in {"done", "failed"}
                  /\ rejects("languages") => fetchDataPc' = "failed"
            /\ fetchDataPc' = "failed" => error' = LoadErrorMessage]_vars

\* getThemes rejected after getCategories resolved, and getLanguages would have
\* resolved: the load failed and none of the three lists has an option.
C12_Witness ==
    /\ location = FormPath
    /\ fetchDataPc = "failed"
    /\ formNet.categories.kind = "data"
    /\ Len(formNet.categories.data) = 2
    /\ rejects("themes")
    /\ formNet.languages.kind = "data"
    /\ \A d \in Taxonomies : optionList(d) = << >>
    /\ error = LoadErrorMessage

(***************************************************************************)
(* C13: what moves currentPage                                             *)
(***************************************************************************)
\* A filter selection or the search text changes in the step.
filterInputChanges ==
    \/ selectedCategory' # selectedCategory
    \/ selectedTheme' # selectedTheme
    \/ selectedLanguage' # selectedLanguage
    \/ searchTerm' # searchTerm

\* Some filter is set.
someFilterSet ==
    \/ selectedCategory # EmptyString
    \/ selectedTheme # EmptyString
    \/ selectedLanguage # EmptyString
    \/ searchTerm # EmptyString

\* C13: toggling a category, theme or language filter or changing the search
\* text leaves currentPage unchanged, and so does the recomputation of the
\* filtered list; currentPage changes only in a paginate step, to one of the
\* page numbers of the pagination bar, with the filters and the lists untouched.
C13_OnlyPaginateMovesCurrentPage ==
    [][/\ filterInputChanges => currentPage' = currentPage
       /\ filteredTerms' # filteredTerms => currentPage' = currentPage
       /\ currentPage' # currentPage =>
             /\ currentPage' \in pageNumbers(Len(filteredTerms))
             /\ ~filterInputChanges
             /\ terms' = terms
             /\ filteredTerms' = filteredTerms]_vars

\* After narrowing: a filter is set, the filtered list is shorter than the
\* fetched list and not empty, currentPage lies past its last page and
\* nothing is displayed.
C13_Witness ==
    /\ someFilterSet
    /\ ~filterEffectPending
    /\ Len(filteredTerms) > 0
    /\ Len(filteredTerms) < Len(terms)
    /\ currentPage \notin pageNumbers(Len(filteredTerms))
    /\ currentPage * termsPerPage - termsPerPage >= Len(filteredTerms)
    /\ currentTerms = << >>

(***************************************************************************)
(* C14: free text only under "Other"                                       *)
(***************************************************************************)
\* What the step does to one field, given its selection and its free text
\* before and after: a selection changed to a value other than "Other" leaves
\* the free text empty, and the free text is edited to a value that is not
\* empty only while "Other" is and stays selected.
freeTextFollowsSelection(selection, selectionAfter, freeText, freeTextAfter) ==
    /\ selectionAfter # selection /\ selectionAfter # Other =>
          freeTextAfter = EmptyString
    /\ freeTextAfter # freeText /\ freeTextAfter # EmptyString =>
          selection = Other /\ selectionAfter = Other

\* C14: while the form is shown, for each of the three fields the free text
\* (newCategory, newTheme, newLanguage) is not empty only if the selection of
\* its dropdown is "Other"; changing the dropdown to a value other than "Other"
\* clears the free text, and the free text is edited only while "Other" is
\* selected.
C14_FreeTextOnlyUnderOther ==
    /\ [](location = FormPath =>
            /\ newCategory # EmptyString => grammaticalCategory = Other
            /\ newTheme # EmptyString => theme = Other
            /\ newLanguage # EmptyString => language = Other)
    /\ [][location = FormPath =>
            /\ freeTextFollowsSelection(grammaticalCategory, grammaticalCategory',
                                        newCategory, newCategory')
            /\ freeTextFollowsSelection(theme, theme', newTheme, newTheme')
            /\ freeTextFollowsSelection(language, language',
                                        newLanguage, newLanguage')]_vars

\* After the load, a free text has been typed for the theme under "Other",
\* while the category is one of the fetched ones and has no free text.
C14_Witness ==
    /\ location = FormPath
    /\ fetchDataPc = "done"
    /\ ~defaultsEffectPending
    /\ theme = Other
    /\ newTheme # EmptyString
    /\ grammaticalCategory \in optionNames(formCategories)
    /\ grammaticalCategory # Other
    /\ newCategory = EmptyString

====
